---------------------------- MODULE Spec2Model ----------------------------
(***************************************************************************)
(* FloatInspector.cpp: the bits of a 32-bit float are read through an int  *)
(* and printed, most significant first, under a row of centred headers.    *)
(*                                                                         *)
(* A 32-bit object (the float's storage, the int i, the value of an int    *)
(* expression) is a function 0..31 -> {0,1}, index k being bit number k:   *)
(* an unsigned 32-bit value does not fit the model checker's integers, and *)
(* the program only shifts and masks.  Text is a sequence of one-character *)
(* strings.                                                                *)
(***************************************************************************)
EXTENDS Integers, Sequences, FiniteSets

(***************************************************************************)
(* Bounds of the model.                                                    *)
(***************************************************************************)
\* inputs: among others, the patterns with at most MaxSetBits of the bits at
\* the edges of the three fields set, and their complements
MaxSetBits == 3
\* createHeader is explored for titles of 0..MaxTitleLen characters
MaxTitleLen == 12
\* and for bit counts 1..MaxHeaderBits
MaxHeaderBits == 24

(***************************************************************************)
(* 32-bit objects.                                                         *)
(***************************************************************************)
BitPos == 0..31

\* the object whose set bits are the positions in S
BV(S) == [k \in BitPos |-> IF k \in S THEN 1 ELSE 0]

Pow2(n) == 2 ^ n

\* the object holding the natural number n < 2^31
FromNat(n) == [k \in BitPos |-> IF k = 31 THEN 0 ELSE (n \div Pow2(k)) % 2]

RECURSIVE SumBits(_, _)
SumBits(v, k) == IF k < 0 THEN 0 ELSE v[k] * Pow2(k) + SumBits(v, k - 1)

\* the value of the object read as a two's complement int
ToInt(v) == (IF v[31] = 1 THEN (-Pow2(30)) - Pow2(30) ELSE 0) + SumBits(v, 30)

\* i << n, the shift made the wrong way
ShiftLeftInt(v, n) == [k \in BitPos |-> IF k >= n THEN v[k - n] ELSE 0]

\* i >> n on an int: the sign bit is shifted in from the left (what every
\* compiler does with a negative int, and what C++20 requires)
ShiftRightInt(v, n) == [k \in BitPos |-> IF k + n <= 31 THEN v[k + n] ELSE v[31]]

\* a | b
BitOr(a, b) == [k \in BitPos |-> IF a[k] + b[k] > 0 THEN 1 ELSE 0]

\* a & b
BitAnd(a, b) == [k \in BitPos |-> a[k] * b[k]]

One32 == FromNat(1)

\* the shift without the mask
ExtractBitUnmasked(v, n) == ShiftRightInt(v, n)

\* (i >> bit) % 2: the remainder of a negative odd int is -1
ExtractBitModulo(v, n) ==
  LET s == ShiftRightInt(v, n)
  IN  IF s[0] = 0 THEN BV({}) ELSE IF s[31] = 1 THEN BV(BitPos) ELSE One32

\* (i >> bit) & 1
ExtractBit(v, n) == BitAnd(ShiftRightInt(v, n), One32)

(***************************************************************************)
(* Text.                                                                   *)
(***************************************************************************)
Spaces(n) == [k \in 1..n |-> " "]

Digit(d) == <<"0", "1", "2", "3", "4", "5", "6", "7", "8", "9">>[d + 1]

RECURSIVE Digits(_)
Digits(n) == IF n < 10 THEN <<Digit(n)>> ELSE Digits(n \div 10) \o <<Digit(n % 10)>>

\* the digits of -n for n <= 0, without negating n (INT_MIN has no negation)
RECURSIVE DigitsOfNeg(_)
DigitsOfNeg(n) ==
  LET d == (10 - (n % 10)) % 10
      rest == (n + d) \div 10
  IN  IF rest = 0 THEN <<Digit(d)>> ELSE DigitsOfNeg(rest) \o <<Digit(d)>>

\* operator<<(ostream&, int): the decimal digits, a minus sign before a negative
FormatInt(n) == IF n >= 0 THEN Digits(n) ELSE <<"-">> \o DigitsOfNeg(n)

\* one insertion into cout: the kind of operand and the characters it writes
Insertion(kind, text) == [kind |-> kind, text |-> text]

InsertChar(c) == Insertion("char", <<c>>)

InsertString(s) == Insertion("string", s)

InsertInt(v) == Insertion("int", FormatInt(ToInt(v)))

RECURSIVE Flat(_)
Flat(ins) == IF ins = <<>> THEN <<>> ELSE Head(ins).text \o Flat(Tail(ins))

(***************************************************************************)
(* createHeader.                                                           *)
(***************************************************************************)
\* the width without the pipes between the columns
TotalWidthNoPipes(t, b) == (b * 3) - Len(t)

\* the title's length less the columns' width, the operands exchanged
TotalWidthSwapped(t, b) == Len(t) - ((b * 3) + (b - 1))

\* (bits * 3) + (bits - 1) - title.length(): the subtraction is made in
\* size_t and narrowed to int, which is the exact difference whenever the
\* difference fits an int, as it does for every bit count and title here
TotalWidth(t, b) == (b * 3) + (b - 1) - Len(t)

\* int division rounds toward zero
LeftPad(tw) == IF tw >= 0 THEN tw \div 2 ELSE -((-tw) \div 2)

\* both pads are width / 2
RightPadHalf(tw, lp) == LeftPad(tw)

RightPad(tw, lp) == tw - lp

\* std::length_error leaves no string
Thrown == [thrown |-> TRUE, str |-> <<>>]

\* left + title + right; string(n, ' ') takes a size_t count, so a negative
\* pad is a count above max_size() and the constructor throws
BuildHeader(t, lp, rp) ==
  IF lp < 0 \/ rp < 0 THEN Thrown
  ELSE [thrown |-> FALSE, str |-> Spaces(lp) \o t \o Spaces(rp)]

createHeader(t, b) ==
  LET tw == TotalWidth(t, b)
      lp == LeftPad(tw)
      rp == RightPad(tw, lp)
  IN  BuildHeader(t, lp, rp)

(***************************************************************************)
(* The float of main.                                                      *)
(***************************************************************************)
\* the binary exponent e of num/den > 0: 2^e <= num/den < 2^(e+1)
RECURSIVE Exponent2(_, _)
Exponent2(num, den) ==
  IF num >= 2 * den THEN Exponent2(num, 2 * den) + 1
  ELSE IF num < den THEN Exponent2(2 * num, den) - 1
  ELSE 0

\* n/d with the fraction dropped
RoundDown(n, d) == n \div d

\* n/d rounded to the nearest integer, ties to even
RoundHalfEven(n, d) ==
  LET q == n \div d
      r == n % d
  IN  IF 2 * r > d \/ (2 * r = d /\ q % 2 = 1) THEN q + 1 ELSE q

\* the storage of the float literal (-)num/den, a zero or a normal number:
\* sign, biased exponent, and the 23 fraction bits of the rounded significand
FloatLiteral(neg, num, den) ==
  IF num = 0 THEN BV(IF neg THEN {31} ELSE {})
  ELSE LET e == Exponent2(num, den)
           n1 == IF e < 0 THEN num * Pow2(-e) ELSE num
           d1 == IF e > 0 THEN den * Pow2(e) ELSE den
           m == RoundHalfEven(n1 * Pow2(23), d1)
           biased == IF m = Pow2(24) THEN e + 128 ELSE e + 127
           frac == IF m = Pow2(24) THEN 0 ELSE m - Pow2(23)
           mag == FromNat(biased * Pow2(23) + frac)
       IN  [k \in BitPos |-> IF k = 31 THEN (IF neg THEN 1 ELSE 0) ELSE mag[k]]

\* the lowest and highest bit of the mantissa, of the exponent, and the sign
FieldEdges == {0, 22, 23, 30, 31}

RECURSIVE SetsUpTo(_)
SetsUpTo(n) ==
  IF n = 0 THEN {{}}
  ELSE SetsUpTo(n - 1) \cup {S \cup {k} : S \in SetsUpTo(n - 1), k \in FieldEdges}

\* the floats f is set to: 1.1f of the source, -1.0f, the infinities, a NaN,
\* every pattern of one set bit or one clear bit, and every pattern of few
\* set or few clear bits at the edges of the fields (zeros and subnormals
\* among them)
Inputs ==
  {FloatLiteral(FALSE, 11, 10), FloatLiteral(TRUE, 1, 1),
   BV(23..30), BV(23..31), BV(22..30)}
  \cup {BV({k}) : k \in BitPos}
  \cup {BV(BitPos \ {k}) : k \in BitPos}
  \cup {BV(S) : S \in SetsUpTo(MaxSetBits)}
  \cup {BV(BitPos \ S) : S \in SetsUpTo(MaxSetBits)}

\* what an int read may find where no int was stored
Indeterminate == {BV({}), BV(BitPos), BV({31})}

\* *(int*)&f reads a float object through an int lvalue, which is undefined:
\* the read yields the float's bytes, or, the store to f not being ordered
\* before a read of another type, an indeterminate int
AliasedRead(v) == {v} \cup Indeterminate

(***************************************************************************)
(* State.  i and bit have no value before their declarations run; they     *)
(* start at a value no step reads.                                         *)
(***************************************************************************)
VARIABLES
  f,            \* main: the storage of float f
  i,            \* main: int i
  bit,          \* main: the loop variable
  out,          \* the insertions made into cout, in order
  pc,           \* main: "reinterpret", "header", "for", "test", "done", "aborted"
  title,        \* createHeader: parameter
  bits,         \* createHeader: parameter
  total_width,  \* createHeader: local
  left_pad,     \* createHeader: local
  right_pad,    \* createHeader: local
  ret,          \* createHeader: what the call ends with
  hpc           \* createHeader: "idle", "entry", "width", "left", "right", "returned"

vars == <<f, i, bit, out, pc, title, bits, total_width, left_pad, right_pad, ret, hpc>>

mainVars == <<f, i, bit, out, pc>>

headerVars == <<title, bits, total_width, left_pad, right_pad, ret, hpc>>

Plus == <<"+">>

ExponentTitle == <<"e", "x", "p", "o", "n", "e", "n", "t">>

MantissaTitle == <<"m", "a", "n", "t", "i", "s", "s", "a">>

\* the loop starts one bit low
FirstBitLow == 31 - 1

FirstBit == 31

HeaderIdle ==
  /\ title = <<>> /\ bits = 1 /\ total_width = 0 /\ left_pad = 0
  /\ right_pad = 0 /\ ret = Thrown /\ hpc = "idle"

(***************************************************************************)
(* main.                                                                   *)
(***************************************************************************)
Init ==
  /\ f \in Inputs
  /\ i = BV({})
  /\ bit = FirstBit
  /\ out = <<>>
  /\ pc = "reinterpret"
  /\ HeaderIdle

\* int i = *(int*)&f;
Reinterpret ==
  /\ pc = "reinterpret"
  /\ i' \in AliasedRead(f)
  /\ pc' = "header"
  /\ UNCHANGED <<f, bit, out, headerVars>>

\* cout << '|' << createHeader("+", 1) << '|' << createHeader("exponent", 8)
\*      << '|' << createHeader("mantissa", 23) << "|\n| ";
\* an exception of createHeader is caught nowhere and ends the program
WriteHeader ==
  /\ pc = "header"
  /\ LET h1 == createHeader(Plus, 1)
         h8 == createHeader(ExponentTitle, 8)
         h23 == createHeader(MantissaTitle, 23)
     IN  IF h1.thrown \/ h8.thrown \/ h23.thrown
         THEN /\ pc' = "aborted"
              /\ out' = out
         ELSE /\ pc' = "for"
              /\ out' = out \o << InsertChar("|"), InsertString(h1.str),
                                  InsertChar("|"), InsertString(h8.str),
                                  InsertChar("|"), InsertString(h23.str),
                                  InsertString(<<"|", "\n", "|", " ">>) >>
  /\ UNCHANGED <<f, i, bit, headerVars>>

\* for (int bit = 31; ...
ForInit ==
  /\ pc = "for"
  /\ bit' = FirstBit
  /\ pc' = "test"
  /\ UNCHANGED <<f, i, out, headerVars>>

\* bit >= 0: cout << ((i >> bit) & 1) << " | "; --bit
LoopBody ==
  /\ pc = "test"
  /\ bit >= 0
  /\ out' = out \o << InsertInt(ExtractBit(i, bit)), InsertString(<<" ", "|", " ">>) >>
  /\ bit' = bit - 1
  /\ UNCHANGED <<f, i, pc, headerVars>>

\* bit < 0: the loop ends and main returns
LoopExit ==
  /\ pc = "test"
  /\ bit < 0
  /\ pc' = "done"
  /\ UNCHANGED <<f, i, bit, out, headerVars>>

Next ==
  \/ Reinterpret
  \/ WriteHeader
  \/ ForInit
  \/ LoopBody
  \/ LoopExit

Spec == Init /\ [][Next]_vars

\* main runs to its end: no step of it waits on anything
FairSpec == Spec /\ WF_vars(Next)

(***************************************************************************)
(* createHeader on its own, statement by statement, for any title and bit  *)
(* count.                                                                  *)
(***************************************************************************)
\* a title of n characters
TitleOfLen(n) == [k \in 1..n |-> MantissaTitle[((k - 1) % Len(MantissaTitle)) + 1]]

Titles == {Plus, ExponentTitle, MantissaTitle} \cup {TitleOfLen(n) : n \in 0..MaxTitleLen}

InitHeader ==
  /\ f = FloatLiteral(FALSE, 11, 10)
  /\ i = BV({})
  /\ bit = FirstBit
  /\ out = <<>>
  /\ pc = "reinterpret"
  /\ title \in Titles
  /\ bits \in 1..MaxHeaderBits
  /\ total_width = 0
  /\ left_pad = 0
  /\ right_pad = 0
  /\ ret = Thrown
  /\ hpc = "entry"

\* int total_width = (bits * 3) + (bits - 1) - title.length();
ComputeWidth ==
  /\ hpc = "entry"
  /\ total_width' = TotalWidth(title, bits)
  /\ hpc' = "width"
  /\ UNCHANGED <<mainVars, title, bits, left_pad, right_pad, ret>>

\* int left_pad = total_width / 2;
ComputeLeftPad ==
  /\ hpc = "width"
  /\ left_pad' = LeftPad(total_width)
  /\ hpc' = "left"
  /\ UNCHANGED <<mainVars, title, bits, total_width, right_pad, ret>>

\* int right_pad = total_width - left_pad;
ComputeRightPad ==
  /\ hpc = "left"
  /\ right_pad' = RightPad(total_width, left_pad)
  /\ hpc' = "right"
  /\ UNCHANGED <<mainVars, title, bits, total_width, left_pad, ret>>

\* return string(left_pad, ' ') + title + string(right_pad, ' ');
ReturnHeader ==
  /\ hpc = "right"
  /\ ret' = BuildHeader(title, left_pad, right_pad)
  /\ hpc' = "returned"
  /\ UNCHANGED <<mainVars, title, bits, total_width, left_pad, right_pad>>

NextHeader ==
  \/ ComputeWidth
  \/ ComputeLeftPad
  \/ ComputeRightPad
  \/ ReturnHeader

SpecHeader == InitHeader /\ [][NextHeader]_vars

(***************************************************************************)
(* Vocabulary of the properties.                                           *)
(***************************************************************************)
\* bits >> n and bits << n on an unsigned 32-bit value
ShiftRightLogical(v, n) == [k \in BitPos |-> IF k + n <= 31 THEN v[k + n] ELSE 0]

ShiftLeft(v, n) == [k \in BitPos |-> IF k >= n THEN v[k - n] ELSE 0]

IsBitCell(r) == r.kind = "int"

\* the bit cells written so far, in the order written
Cells == SelectSeq(out, IsBitCell)

\* the bit a cell shows, -1 if its text is not the one character 0 or 1
CellBit(k) ==
  IF Cells[k + 1].text = <<"1">> THEN 1
  ELSE IF Cells[k + 1].text = <<"0">> THEN 0
  ELSE -1

\* the number whose binary digits, most significant first, are cells from..to
RECURSIVE CellsValue(_, _)
CellsValue(from, to) ==
  IF to < from THEN 0 ELSE 2 * CellsValue(from, to - 1) + CellBit(to)

PrintedSign == CellsValue(0, 0)

PrintedExponent == CellsValue(1, 8)

PrintedMantissa == CellsValue(9, 31)

AllCellsAreBits == Len(Cells) = 32 /\ \A k \in 0..31 : CellBit(k) \in {0, 1}

\* the text written, and its lines
Text == Flat(out)

NewlineAt == {k \in 1..Len(Text) : Text[k] = "\n"}

Lines ==
  LET cuts == NewlineAt
      RECURSIVE Split(_)
      Split(from) ==
        IF \E k \in cuts : k >= from
        THEN LET k == CHOOSE c \in cuts : c >= from /\ \A d \in cuts : d >= from => c <= d
             IN  <<SubSeq(Text, from, k - 1)>> \o Split(k + 1)
        ELSE <<SubSeq(Text, from, Len(Text))>>
  IN  Split(1)

\* the 0-based offsets of the pipes of a line
PipeOffsets(line) == {k - 1 : k \in {j \in 1..Len(line) : line[j] = "|"}}

\* the kinds of the insertions main makes on its one path
ExpectedShape ==
  <<"char", "string", "char", "string", "char", "string", "string">>
  \o [k \in 1..64 |-> IF k % 2 = 1 THEN "int" ELSE "string"]

OutShape == [k \in 1..Len(out) |-> out[k].kind]

(***************************************************************************)
(* C1. Round trip: when main has printed its row, the sign read from the   *)
(* first cell, the exponent from the next 8 and the mantissa from the last *)
(* 23 are (bits >> 31) & 1, (bits >> 23) & 0xFF and bits & 0x7FFFFF of the *)
(* pattern bits main holds, and sign<<31 | exponent<<23 | mantissa is that *)
(* pattern again.                                                          *)
(***************************************************************************)
C1_RoundTrip ==
  pc = "done" =>
    /\ AllCellsAreBits
    /\ FromNat(PrintedSign) = BitAnd(ShiftRightLogical(i, 31), FromNat(1))
    /\ FromNat(PrintedExponent) = BitAnd(ShiftRightLogical(i, 23), FromNat(255))
    /\ FromNat(PrintedMantissa) = BitAnd(i, FromNat(Pow2(23) - 1))
    /\ BitOr(BitOr(ShiftLeft(FromNat(PrintedSign), 31),
                   ShiftLeft(FromNat(PrintedExponent), 23)),
             FromNat(PrintedMantissa)) = i

C1_Witness ==
  /\ pc = "done"
  /\ i[31] = 1
  /\ \E k \in 23..30 : i[k] = 1
  /\ \E k \in 23..30 : i[k] = 0
  /\ \E k \in 0..22 : i[k] = 1

(***************************************************************************)
(* C2. For the input 1.1f, raw bits 0x3F8CCCCD, read into i: the printed   *)
(* row is the 32 bits 0 | 01111111 | 00011001100110011001101 of the        *)
(* example output, so sign = 0 and exponent = 127.  As claimed, the        *)
(* mantissa would be 3,355,443; the 23 bits printed are the number         *)
(* 838,861.                                                                *)
(***************************************************************************)
ExampleRow ==
  <<0,  0, 1, 1, 1, 1, 1, 1, 1,
    0, 0, 0, 1, 1, 0, 0, 1, 1, 0, 0, 1, 1, 0, 0, 1, 1, 0, 0, 1, 1, 0, 1>>

Input11 == pc = "done" /\ f = FloatLiteral(FALSE, 11, 10) /\ i = f

RowOf11 ==
  /\ f = FromNat(1066192077)
  /\ AllCellsAreBits
  /\ \A k \in 0..31 : CellBit(k) = ExampleRow[k + 1]
  /\ Lines[2] = <<"|", " ">> \o Flat([k \in 1..32 |->
                    [text |-> <<Digit(ExampleRow[k]), " ", "|", " ">>]])
  /\ PrintedSign = 0
  /\ PrintedExponent = 127

\* C2 as claimed: for the input 1.1f the row is the example's, sign = 0,
\* exponent = 127 and mantissa = 3,355,443
C2_Original == Input11 => (RowOf11 /\ PrintedMantissa = 3355443)

\* C2 with the mantissa's value put right: for the input 1.1f the row is
\* the example's, sign = 0, exponent = 127 and mantissa = 838,861
C2_Decompose11 == Input11 => (RowOf11 /\ PrintedMantissa = 838861)

C2_Witness == Input11 /\ Len(Cells) = 32

(***************************************************************************)
(* C3. For the input -1.0f, raw bits 0xBF800000, which i holds as a        *)
(* negative int: sign = 1, exponent = 127, mantissa = 0.                   *)
(***************************************************************************)
InputMinus1 == pc = "done" /\ f = FloatLiteral(TRUE, 1, 1) /\ i = f

\* C3: for the input -1.0f the printed sign is 1, exponent 127, mantissa 0
C3_DecomposeMinus1 ==
  InputMinus1 =>
    /\ f = BitOr(ShiftLeft(FromNat(1), 31), ShiftLeft(FromNat(127), 23))
    /\ ToInt(i) < 0
    /\ AllCellsAreBits
    /\ PrintedSign = 1
    /\ PrintedExponent = 127
    /\ PrintedMantissa = 0

C3_Witness == InputMinus1 /\ Len(Cells) = 32 /\ ToInt(i) = -1082130432

(***************************************************************************)
(* C4. The loop writes the bits one per cell, most significant first: at   *)
(* every moment the cells written are the single characters of bits 31,    *)
(* 30, ... of the pattern in i, in that order; there are never more than   *)
(* 32, and exactly 32 when main has ended.                                 *)
(***************************************************************************)
C4_PerBitMsbFirst ==
  LET cells == Cells
  IN  /\ Len(cells) <= 32
      /\ \A k \in 0..(Len(cells) - 1) : cells[k + 1].text = <<Digit(i[31 - k])>>
      /\ pc = "test" => Len(cells) = 31 - bit
      /\ pc = "done" => Len(cells) = 32

C4_Witness ==
  /\ pc = "done"
  /\ Len(Cells) = 32
  /\ Cells[1].text = <<"1">>
  /\ Cells[32].text = <<"0">>

(***************************************************************************)
(* C5. createHeader sets the total padding to 3*B + (B-1) - L.  As         *)
(* claimed, for every title and every B >= 1 it returns left padding +     *)
(* title + right padding, of length 4*B - 1.  It does so when L <= 4*B - 1;*)
(* a longer title makes a pad negative, and the string constructor throws  *)
(* std::length_error instead.                                              *)
(***************************************************************************)
HeaderReturned == hpc = "returned"

PaddedTitle ==
  /\ ~ret.thrown
  /\ ret.str = Spaces(left_pad) \o title \o Spaces(right_pad)
  /\ Len(ret.str) = 4 * bits - 1

\* C5 as claimed: every call returns the padded title, 4*B - 1 characters
C5_Original ==
  HeaderReturned =>
    /\ total_width = 3 * bits + (bits - 1) - Len(title)
    /\ PaddedTitle

\* C5 for the titles that fit: a call with L <= 4*B - 1 returns the padded
\* title, 4*B - 1 characters; any other call throws
C5_HeaderLength ==
  HeaderReturned =>
    /\ total_width = 3 * bits + (bits - 1) - Len(title)
    /\ IF Len(title) <= 4 * bits - 1 THEN PaddedTitle ELSE ret.thrown

C5_Witness ==
  /\ HeaderReturned
  /\ title = ExponentTitle
  /\ bits = 8
  /\ Len(ret.str) = 31

(***************************************************************************)
(* C6. Once both pads are computed, left_pad is total_width / 2 rounded    *)
(* toward zero, the two pads differ by at most 1 and their sum is          *)
(* total_width exactly.                                                    *)
(***************************************************************************)
Abs(n) == IF n < 0 THEN -n ELSE n

\* C6: left_pad is total_width / 2 toward zero, the pads differ by at most
\* 1 and sum to total_width
C6_PadSplit ==
  hpc \in {"right", "returned"} =>
    /\ 2 * Abs(left_pad) <= Abs(total_width)
    /\ Abs(total_width) <= 2 * Abs(left_pad) + 1
    /\ left_pad * total_width >= 0
    /\ Abs(left_pad - right_pad) <= 1
    /\ left_pad + right_pad = total_width

C6_Witness ==
  /\ hpc = "returned"
  /\ total_width > 0
  /\ total_width % 2 = 1
  /\ right_pad = left_pad + 1
  /\ ~ret.thrown

(***************************************************************************)
(* C7. What main has written when it ends echoes the input value: an       *)
(* insertion of the float, or a line besides the header row and the bit    *)
(* row.                                                                    *)
(***************************************************************************)
EchoesInput ==
  \/ \E k \in 1..Len(out) : out[k].kind = "float"
  \/ Len(Lines) > 2

\* C7: the output of a finished main echoes the input value
C7_EchoesInput == pc = "done" => EchoesInput

(***************************************************************************)
(* C8. Whatever the pattern, main is never aborted and ends, having made   *)
(* the same insertions in kind: the header row and 32 one-bit cells.       *)
(***************************************************************************)
C8_NoErrorPath ==
  /\ [](pc # "aborted")
  /\ <>(pc = "done" /\ OutShape = ExpectedShape /\ AllCellsAreBits /\ Len(Lines) = 2)

\* infinity, a NaN, the zeros and a subnormal are among the patterns that end
C8_Witness ==
  /\ pc = "done"
  /\ Len(Cells) = 32
  /\ \/ i = BV(22..30)
     \/ i = BV(23..30)
     \/ i = BV({31})
     \/ i = BV({0})

(***************************************************************************)
(* C9. The pipes of the header row stand at offsets 0, 4, 36 and 128; the  *)
(* pipes of the finished bit row stand at every offset 4*k, k in 0..32,    *)
(* and cell k at offset 4*k + 2, so the three headers lie over cell 0,     *)
(* cells 1..8 and cells 9..31.                                             *)
(***************************************************************************)
HeaderRow == Lines[1]

BitRow == Lines[2]

CellOffsets == {4 * k + 2 : k \in 0..31}

HeaderRowPipes(lines) ==
  /\ Len(lines) = 2
  /\ PipeOffsets(lines[1]) = {0, 4, 36, 128}
  /\ Len(lines[1]) = 129

BitRowUnderHeaders(lines, cells) ==
  /\ PipeOffsets(lines[2]) = {4 * k : k \in 0..32}
  /\ PipeOffsets(lines[1]) \subseteq PipeOffsets(lines[2])
  /\ \A k \in 0..31 : lines[2][4 * k + 3] = cells[k + 1].text[1]
  /\ {c \in CellOffsets : 0 < c /\ c < 4} = {2}
  /\ {c \in CellOffsets : 4 < c /\ c < 36} = {4 * k + 2 : k \in 1..8}
  /\ {c \in CellOffsets : 36 < c /\ c < 128} = {4 * k + 2 : k \in 9..31}

\* C9: header pipes at 0, 4, 36, 128, each over a pipe of the bit row, with
\* 1, 8 and 23 cells between them
C9_ColumnsAligned ==
  /\ pc \in {"for", "done"} => HeaderRowPipes(Lines)
  /\ pc = "done" => BitRowUnderHeaders(Lines, Cells)

C9_Witness ==
  /\ pc = "done"
  /\ HeaderRow[3] = "+"
  /\ SubSeq(HeaderRow, 17, 24) = ExponentTitle
  /\ SubSeq(HeaderRow, 79, 86) = MantissaTitle
  /\ BitRow[129] = "|"

(***************************************************************************)
(* C10. For the int main holds, negative or not, and every bit 0..31,      *)
(* (i >> bit) & 1 with the sign-extending shift is 0 or 1 and is the bit a *)
(* zero-filling shift of the same pattern gives.                           *)
(***************************************************************************)
C10_SignIndependent ==
  pc \in {"header", "done"} =>
    \A b \in BitPos :
      /\ ToInt(ExtractBit(i, b)) \in {0, 1}
      /\ ExtractBit(i, b) = BitAnd(ShiftRightLogical(i, b), One32)
      /\ ToInt(ExtractBit(i, b)) = i[b]

\* a negative int whose shifts differ, printed to the end
C10_Witness ==
  /\ pc = "done"
  /\ ToInt(i) < 0
  /\ \E b \in 1..31 : ShiftRightInt(i, b) # ShiftRightLogical(i, b)
  /\ Cells[1].text = <<"1">>

=============================================================================
